---------------------------- MODULE Spec2Model ----------------------------
(*************************************************************************)
(* Model of src/app/ui/language.py: the widget tree of the drag-and-drop *)
(* script editor (typed gaps, append-only lists, value and operator      *)
(* widgets), the factory that builds widgets from language components,   *)
(* model() that derives the component back, the drag protocol and the    *)
(* posting of script change events.                                      *)
(*                                                                       *)
(* A language component is a record whose field cls is its class name.   *)
(* A widget is a record whose field cls is its widget class name and     *)
(* whose other fields are the attributes of the widget object, child     *)
(* widgets nested as values.  A widget is addressed by the path of       *)
(* attribute steps that leads to it from the root widget.                *)
(*************************************************************************)
EXTENDS Integers, Sequences, FiniteSets, TLC

(*************************************************************************)
(* Bounds of the model.                                                  *)
(*************************************************************************)
\* edits, drags and application calls in one run
MaxOps == 2

(*************************************************************************)
(* Language components (app.models.language).                            *)
(*************************************************************************)
NumberValue(v) == [cls |-> "NumberValue", value |-> v]
TextValue(v) == [cls |-> "TextValue", value |-> v]
VideoValue(v) == [cls |-> "VideoValue", value |-> v]
Add(a, b) == [cls |-> "Add", op1 |-> a, op2 |-> b]
Subtract(a, b) == [cls |-> "Subtract", op1 |-> a, op2 |-> b]
Multiply(a, b) == [cls |-> "Multiply", op1 |-> a, op2 |-> b]
GetVariableExpression(n) == [cls |-> "GetVariableExpression", name |-> n]
SetVariableStatement(n, v) ==
    [cls |-> "SetVariableStatement", name |-> n, value |-> v]
CommandSequence(cs) == [cls |-> "CommandSequence", commands |-> cs]
TextScene(t, c, d, pre, post, x) ==
    [cls |-> "TextScene", title |-> t, comment |-> c, duration |-> d,
     pre_commands |-> pre, post_commands |-> post, text |-> x]
VideoScene(t, c, d, pre, post, o, s) ==
    [cls |-> "VideoScene", title |-> t, comment |-> c, duration |-> d,
     pre_commands |-> pre, post_commands |-> post, offset |-> o, source |-> s]
YoutubeVideoGetTitle(v) == [cls |-> "YoutubeVideoGetTitle", video |-> v]
YoutubeVideoGetRelated(v) == [cls |-> "YoutubeVideoGetRelated", video |-> v]
YoutubeVideoCollectionRandom(vc) ==
    [cls |-> "YoutubeVideoCollectionRandom", video_collection |-> vc]
Act(ss) == [cls |-> "Act", scenes |-> ss]
NumberGap == [cls |-> "NumberGap"]
TextGap == [cls |-> "TextGap"]
VideoGap == [cls |-> "VideoGap"]
VideoCollectionGap == [cls |-> "VideoCollectionGap"]

\* The class hierarchy of the language components: the classes of each
\* abstract category.
Gap == {"NumberGap", "TextGap", "VideoGap", "VideoCollectionGap"}
NumberExpression == {"NumberValue", "Add", "Subtract", "Multiply", "NumberGap"}
TextExpression == {"TextValue", "YoutubeVideoGetTitle", "TextGap"}
VideoExpression == {"VideoValue", "YoutubeVideoCollectionRandom", "VideoGap"}
VideoCollectionExpression == {"YoutubeVideoGetRelated", "VideoCollectionGap"}
Statement == {"GetVariableExpression", "SetVariableStatement"}
Scene == {"TextScene", "VideoScene"}

\* isinstance(component, category)
isinstance(component, category) == component.cls \in category

(*************************************************************************)
(* Text of the primitive controls.  A number is shown in a line edit as  *)
(* its decimal text and read back with float(); the user may type        *)
(* another spelling of the same number.  The text of a comment box is a  *)
(* sequence of characters, "\n" the line break.                          *)
(*************************************************************************)
NumberTexts == {"2", "2.0"}

\* the text a line edit shows for a number value
str(v) == CASE v = 0 -> "0" [] v = 1 -> "1" [] v = 2 -> "2" [] v = 10 -> "10"

\* float(text)
float(text) ==
    CASE text = "0" -> 0 [] text = "1" -> 1 [] text = "2" -> 2
      [] text = "2.0" -> 2 [] text = "10" -> 10

RECURSIVE find(_, _, _)
\* index of the first ch in s at or after i, 0 if there is none
find(s, ch, i) ==
    IF i > Len(s) THEN 0
    ELSE IF s[i] = ch THEN i ELSE find(s, ch, i + 1)

\* s.partition("\n"): <<before, sep, after>>
partition(s) ==
    LET k == find(s, "\n", 1)
    IN IF k = 0 THEN <<s, <<>>, <<>>>>
       ELSE <<SubSeq(s, 1, k - 1), <<"\n">>, SubSeq(s, k + 1, Len(s))>>


(*************************************************************************)
(* Paths and results of constructors.                                    *)
(*************************************************************************)
\* a step from a widget to the child widget in attribute f
\* (element i of the list in attribute f when i > 0)
Step(f, i) == [f |-> f, i |-> i]

\* result of a constructor or of a mutating method: the widget, the
\* receivers of the script change events it posted, and the exception it
\* raised ("" when it returned)
Ok(w, posts) == [w |-> w, posts |-> posts, err |-> ""]

None == [cls |-> "None"]

Fail(w, e) == [w |-> w, posts |-> <<>>, err |-> e]

RECURSIVE firstErr(_, _)
\* the exception of the first result of rs, from index i on, that raised
firstErr(rs, i) ==
    IF i > Len(rs) THEN ""
    ELSE IF rs[i].err # "" THEN rs[i].err ELSE firstErr(rs, i + 1)

RECURSIVE allPosts(_, _)
allPosts(rs, i) ==
    IF i > Len(rs) THEN <<>> ELSE rs[i].posts \o allPosts(rs, i + 1)

(*************************************************************************)
(* Widgets.                                                              *)
(*************************************************************************)
VARIABLE_NAMES == <<"item", "curr_video", "curr_duration", "curr_offset">>

\* QComboBox.findText(name) over VARIABLE_NAMES followed by
\* setCurrentIndex and currentText: the name when it is an item, the empty
\* text of index -1 otherwise
currentTextAfterFind(name) ==
    IF \E k \in 1..Len(VARIABLE_NAMES) : VARIABLE_NAMES[k] = name
    THEN name ELSE ""

\* NumberOperatorWidget.OPERATORS: the keys and the class each maps to
OPERATORS ==
    [key \in {"+", "-", "/"} |->
        CASE key = "+" -> "Add" [] key = "-" -> "Subtract" [] key = "/" -> "Multiply"]

\* the items NumberOperatorWidget.__init__ adds to its combo box
OperatorItems == <<"+", "-", "*">>

GapClasses ==
    {"NumberGapWidget", "TextGapWidget", "VideoGapWidget", "VideoCollectionGapWidget"}

ListGapClasses == {"CommandGapWidget", "SceneGapWidget"}

ListClasses == {"CommandSequenceWidget", "ActWidget"}

\* ListGapWidget.__init__
ListGapWidget(cls) == [cls |-> cls, readOnly |-> FALSE]

\* GapWidget.isFull
isFull(gap) == gap.child # None

\* GapWidget._emptyGap
emptyGapInner(gap) == [gap EXCEPT !.child = None]

RECURSIVE build(_, _)

\* a faulty fillGap: the test for a Gap comes first, so that a full gap
\* filled with a Gap keeps its child
fillGapKeepsChildOnGap(gap, child, at) ==
    IF isinstance(child, Gap) THEN Ok(gap, <<at>>)
    ELSE LET g1 == IF isFull(gap) THEN emptyGapInner(gap) ELSE gap
             r == build(child, at \o <<Step("child", 0)>>)
         IN IF r.err # "" THEN Fail(g1, r.err)
            ELSE Ok([g1 EXCEPT !.child = r.w], r.posts \o <<at>>)

\* a faulty fillGap: the script change event is posted only when a widget
\* was built
fillGapPostsOnlyOnBuild(gap, child, at) ==
    LET g1 == IF isFull(gap) THEN emptyGapInner(gap) ELSE gap
    IN IF ~isinstance(child, Gap)
       THEN LET r == build(child, at \o <<Step("child", 0)>>)
            IN IF r.err # "" THEN Fail(g1, r.err)
               ELSE Ok([g1 EXCEPT !.child = r.w], r.posts \o <<at>>)
       ELSE Ok(g1, <<>>)

\* GapWidget.fillGap on the gap widget at path at
fillGap(gap, child, at) ==
    LET g1 == IF isFull(gap) THEN emptyGapInner(gap) ELSE gap
    IN IF ~isinstance(child, Gap)
       THEN LET r == build(child, at \o <<Step("child", 0)>>)
            IN IF r.err # "" THEN Fail(g1, r.err)
               ELSE Ok([g1 EXCEPT !.child = r.w], r.posts \o <<at>>)
       ELSE Ok(g1, <<at>>)

\* GapWidget.__init__ for the gap class cls
GapWidget(cls, child, at) ==
    fillGap([cls |-> cls, child |-> None, readOnly |-> FALSE], child, at)

\* the position of the gap item in a list layout (QLayout.indexOf)
indexOfGap(layout) == CHOOSE k \in 1..Len(layout) : layout[k].item = "gap"

\* a faulty _addAtEnd: the element widget is inserted after the gap
addAfterGap(layout, n) ==
    LET k == indexOfGap(layout)
    IN SubSeq(layout, 1, k) \o <<[item |-> "widget", n |-> n]>>
        \o SubSeq(layout, k + 1, Len(layout))

\* ActWidget._addAtEnd / CommandSequenceWidget._addAtEnd: insert the
\* element widget number n before the gap
addAtEnd(layout, n) ==
    LET k == indexOfGap(layout)
    IN SubSeq(layout, 1, k - 1) \o <<[item |-> "widget", n |-> n]>>
        \o SubSeq(layout, k, Len(layout))

\* a faulty addCommand / addScene: the new widget is put in the layout and
\* the event is posted, but the widget is not appended to the list that
\* model() reads
addElementNotAppended(list, lc, at) ==
    LET n == Len(list.elems) + 1
        r == build(lc, at \o <<Step("elems", n)>>)
    IN IF r.err # "" THEN Fail(list, r.err)
       ELSE Ok([list EXCEPT !.layout = addAtEnd(list.layout, n)], <<at>>)

\* a faulty addCommand / addScene: the new widget is put first
addElementFirst(list, lc, at) ==
    LET n == Len(list.elems) + 1
        r == build(lc, at \o <<Step("elems", 1)>>)
    IN IF r.err # "" THEN Fail(list, r.err)
       ELSE Ok([list EXCEPT !.layout = addAtEnd(list.layout, n),
                            !.elems = <<r.w>> \o list.elems],
               r.posts \o <<at>>)

\* CommandSequenceWidget.addCommand / ActWidget.addScene on the list
\* widget at path at
addElement(list, lc, at) ==
    LET n == Len(list.elems) + 1
        r == build(lc, at \o <<Step("elems", n)>>)
    IN IF r.err # "" THEN Fail(list, r.err)
       ELSE Ok([list EXCEPT !.layout = addAtEnd(list.layout, n),
                            !.elems = Append(list.elems, r.w)],
               r.posts \o <<at>>)

addCommand(list, command, at) == addElement(list, command, at)

addScene(list, scene, at) == addElement(list, scene, at)

RECURSIVE addAll(_, _, _, _)
\* the loop of a list constructor: add components i.. of cs one by one
addAll(res, cs, i, at) ==
    IF i > Len(cs) \/ res.err # "" THEN res
    ELSE LET r == addElement(res.w, cs[i], at)
         IN addAll([w |-> r.w, posts |-> res.posts \o r.posts, err |-> r.err],
                   cs, i + 1, at)

\* CommandSequenceWidget.__init__ (attribute _commands is elems)
CommandSequenceWidget(commands, at) ==
    addAll(Ok([cls |-> "CommandSequenceWidget", elems |-> <<>>,
               gap |-> ListGapWidget("CommandGapWidget"),
               layout |-> <<[item |-> "gap", n |-> 0]>>], <<>>),
           commands.commands, 1, at)

\* ActWidget.__init__ (attribute _scenes is elems)
ActWidget(act, at) ==
    LET r == addAll(Ok([cls |-> "ActWidget", elems |-> <<>>,
                        gap |-> ListGapWidget("SceneGapWidget"),
                        layout |-> <<[item |-> "spacing", n |-> 0],
                                     [item |-> "gap", n |-> 0]>>], <<>>),
                    act.scenes, 1, at)
    IN IF r.err # "" THEN r
       ELSE [r EXCEPT !.w.layout = Append(@, [item |-> "stretch", n |-> 0])]

NumberValueWidget(number) ==
    Ok([cls |-> "NumberValueWidget", number |-> str(number.value),
        readOnly |-> FALSE], <<>>)

TextValueWidget(text) ==
    Ok([cls |-> "TextValueWidget", text |-> text.value, readOnly |-> FALSE], <<>>)

VideoValueWidget(video) ==
    Ok([cls |-> "VideoValueWidget", value |-> video.value, readOnly |-> FALSE], <<>>)

GetWidget(getExpression) ==
    Ok([cls |-> "GetWidget", name |-> currentTextAfterFind(getExpression.name)],
       <<>>)

SetWidget(setStatement, at) ==
    LET v == GapWidget("NumberGapWidget", setStatement.value,
                       at \o <<Step("value", 0)>>)
    IN IF v.err # "" THEN Fail(None, v.err)
       ELSE Ok([cls |-> "SetWidget",
                name |-> currentTextAfterFind(setStatement.name),
                value |-> v.w], v.posts)

NumberOperatorWidget(operator, operand1, operand2, at) ==
    IF operator \notin DOMAIN OPERATORS THEN Fail(None, "AssertionError")
    ELSE LET rs == <<GapWidget("NumberGapWidget", operand1,
                               at \o <<Step("operand1", 0)>>),
                     GapWidget("NumberGapWidget", operand2,
                               at \o <<Step("operand2", 0)>>)>>
         IN IF firstErr(rs, 1) # "" THEN Fail(None, firstErr(rs, 1))
            ELSE Ok([cls |-> "NumberOperatorWidget",
                     operand1 |-> rs[1].w, operand2 |-> rs[2].w,
                     operator |-> OperatorItems[1]], allPosts(rs, 1))

VideoSceneWidget(scene, at) ==
    LET rs == <<CommandSequenceWidget(scene.pre_commands,
                                      at \o <<Step("preCommands", 0)>>),
                CommandSequenceWidget(scene.post_commands,
                                      at \o <<Step("postCommands", 0)>>),
                GapWidget("VideoGapWidget", scene.source,
                          at \o <<Step("source", 0)>>),
                GapWidget("NumberGapWidget", scene.duration,
                          at \o <<Step("duration", 0)>>),
                GapWidget("NumberGapWidget", scene.offset,
                          at \o <<Step("offset", 0)>>)>>
    IN IF firstErr(rs, 1) # "" THEN Fail(None, firstErr(rs, 1))
       ELSE Ok([cls |-> "VideoSceneWidget",
                comment |-> scene.title \o <<"\n">> \o scene.comment,
                preCommands |-> rs[1].w, postCommands |-> rs[2].w,
                source |-> rs[3].w, duration |-> rs[4].w, offset |-> rs[5].w],
               allPosts(rs, 1))

TextSceneWidget(scene, at) ==
    LET rs == <<CommandSequenceWidget(scene.pre_commands,
                                      at \o <<Step("preCommands", 0)>>),
                CommandSequenceWidget(scene.post_commands,
                                      at \o <<Step("postCommands", 0)>>),
                GapWidget("TextGapWidget", scene.text,
                          at \o <<Step("text", 0)>>),
                GapWidget("NumberGapWidget", scene.duration,
                          at \o <<Step("duration", 0)>>)>>
    IN IF firstErr(rs, 1) # "" THEN Fail(None, firstErr(rs, 1))
       ELSE Ok([cls |-> "TextSceneWidget",
                comment |-> scene.title \o <<"\n">> \o scene.comment,
                preCommands |-> rs[1].w, postCommands |-> rs[2].w,
                text |-> rs[3].w, duration |-> rs[4].w],
               allPosts(rs, 1))

\* YoutubeVideoGetTitleWidget.__init__ and YoutubeVideoGetRelatedWidget.__init__
YoutubeVideoWidget(cls, lc, at) ==
    LET v == GapWidget("VideoGapWidget", lc.video, at \o <<Step("video", 0)>>)
    IN IF v.err # "" THEN Fail(None, v.err)
       ELSE Ok([cls |-> cls, video |-> v.w], v.posts)

YoutubeVideoCollectionRandomWidget(videoCollectionRandom, at) ==
    LET v == GapWidget("VideoCollectionGapWidget",
                       videoCollectionRandom.video_collection,
                       at \o <<Step("videoCollection", 0)>>)
    IN IF v.err # "" THEN Fail(None, v.err)
       ELSE Ok([cls |-> "YoutubeVideoCollectionRandomWidget",
                videoCollection |-> v.w], v.posts)

\* the keys of the builders table of LanguageWidgetFactory.build
builders ==
    {"NumberValue", "Add", "Subtract", "Multiply", "TextValue", "VideoValue",
     "GetVariableExpression", "SetVariableStatement", "CommandSequence",
     "TextScene", "VideoScene", "YoutubeVideoGetTitle",
     "YoutubeVideoGetRelated", "YoutubeVideoCollectionRandom", "Act"}

\* builders[lc.__class__](lc, parent) for a class that is a key of builders
construct(lc, at) ==
    CASE lc.cls = "NumberValue" -> NumberValueWidget(lc)
      [] lc.cls = "Add" -> NumberOperatorWidget("+", lc.op1, lc.op2, at)
      [] lc.cls = "Subtract" -> NumberOperatorWidget("-", lc.op1, lc.op2, at)
      [] lc.cls = "Multiply" -> NumberOperatorWidget("*", lc.op1, lc.op2, at)
      [] lc.cls = "TextValue" -> TextValueWidget(lc)
      [] lc.cls = "VideoValue" -> VideoValueWidget(lc)
      [] lc.cls = "GetVariableExpression" -> GetWidget(lc)
      [] lc.cls = "SetVariableStatement" -> SetWidget(lc, at)
      [] lc.cls = "CommandSequence" -> CommandSequenceWidget(lc, at)
      [] lc.cls = "TextScene" -> TextSceneWidget(lc, at)
      [] lc.cls = "VideoScene" -> VideoSceneWidget(lc, at)
      [] lc.cls = "YoutubeVideoGetTitle" ->
            YoutubeVideoWidget("YoutubeVideoGetTitleWidget", lc, at)
      [] lc.cls = "YoutubeVideoGetRelated" ->
            YoutubeVideoWidget("YoutubeVideoGetRelatedWidget", lc, at)
      [] lc.cls = "YoutubeVideoCollectionRandom" ->
            YoutubeVideoCollectionRandomWidget(lc, at)
      [] lc.cls = "Act" -> ActWidget(lc, at)

\* a faulty build: a component without a builder gives no widget and no
\* exception
buildNothingForUnknown(lc, at) ==
    IF lc.cls \notin builders THEN Ok(None, <<>>) ELSE construct(lc, at)

\* LanguageWidgetFactory.build(lc, parent), the new widget at path at
build(lc, at) ==
    IF lc.cls \notin builders THEN Fail(None, "RuntimeError")
    ELSE construct(lc, at)

(*************************************************************************)
(* model(): the language component a widget stands for.  An exception    *)
(* raised in a nested model() propagates: the result is then the record  *)
(* of the exception.                                                     *)
(*************************************************************************)
Raised(e) == [cls |-> "Raised", exc |-> e]

isRaised(lc) == lc.cls = "Raised"

RECURSIVE firstRaised(_, _)
\* the first exception among the components of ms from index i on, or None
firstRaised(ms, i) ==
    IF i > Len(ms) THEN None
    ELSE IF isRaised(ms[i]) THEN ms[i] ELSE firstRaised(ms, i + 1)

\* SceneWidget.title
title(scene) == partition(scene.comment)[1]

\* SceneWidget.comment
comment(scene) == partition(scene.comment)[3]

\* the Gap an empty gap widget of class cls returns from model()
emptyModel(cls) ==
    CASE cls = "NumberGapWidget" -> NumberGap
      [] cls = "TextGapWidget" -> TextGap
      [] cls = "VideoGapWidget" -> VideoGap
      [] cls = "VideoCollectionGapWidget" -> VideoGap

RECURSIVE model(_)

\* map(lambda w: w.model(), widgets)
modelAll(widgets) == [k \in 1..Len(widgets) |-> model(widgets[k])]

\* NumberGapWidget.model, TextGapWidget.model, VideoGapWidget.model,
\* VideoCollectionGapWidget.model
gapModel(gap) == IF isFull(gap) THEN model(gap.child) ELSE emptyModel(gap.cls)

\* CommandSequenceWidget.model
commandSequenceModel(w) ==
    LET ms == modelAll(w.elems)
    IN IF firstRaised(ms, 1) # None THEN firstRaised(ms, 1)
       ELSE CommandSequence(ms)

\* ActWidget.model
actModel(w) ==
    LET ms == modelAll(w.elems)
    IN IF firstRaised(ms, 1) # None THEN firstRaised(ms, 1) ELSE Act(ms)

\* SceneWidget.duration
duration(scene) == model(scene.duration)

\* VideoSceneWidget.offset
offset(scene) == model(scene.duration)

\* VideoSceneWidget.source
source(scene) == model(scene.source)

\* VideoSceneWidget.model
videoSceneModel(w) ==
    LET ms == <<duration(w), model(w.preCommands), model(w.postCommands),
                offset(w), source(w)>>
    IN IF firstRaised(ms, 1) # None THEN firstRaised(ms, 1)
       ELSE VideoScene(title(w), comment(w), ms[1], ms[2], ms[3], ms[4], ms[5])

\* TextSceneWidget.model
textSceneModel(w) ==
    LET ms == <<duration(w), model(w.preCommands), model(w.postCommands),
                model(w.text)>>
    IN IF firstRaised(ms, 1) # None THEN firstRaised(ms, 1)
       ELSE TextScene(title(w), comment(w), ms[1], ms[2], ms[3], ms[4])

\* NumberOperatorWidget.model
numberOperatorModel(w) ==
    IF w.operator \notin DOMAIN OPERATORS THEN Raised("KeyError")
    ELSE LET ms == <<model(w.operand1), model(w.operand2)>>
         IN IF firstRaised(ms, 1) # None THEN firstRaised(ms, 1)
            ELSE [cls |-> OPERATORS[w.operator], op1 |-> ms[1], op2 |-> ms[2]]

\* SetWidget.model
setModel(w) ==
    LET v == model(w.value)
    IN IF isRaised(v) THEN v ELSE SetVariableStatement(w.name, v)

\* YoutubeVideoGetTitleWidget.model, YoutubeVideoGetRelatedWidget.model,
\* YoutubeVideoCollectionRandomWidget.model
youtubeModel(w) ==
    CASE w.cls = "YoutubeVideoGetTitleWidget" ->
            LET v == model(w.video)
            IN IF isRaised(v) THEN v ELSE YoutubeVideoGetTitle(v)
      [] w.cls = "YoutubeVideoGetRelatedWidget" ->
            LET v == model(w.video)
            IN IF isRaised(v) THEN v ELSE YoutubeVideoGetRelated(v)
      [] w.cls = "YoutubeVideoCollectionRandomWidget" ->
            LET v == model(w.videoCollection)
            IN IF isRaised(v) THEN v ELSE YoutubeVideoCollectionRandom(v)

\* MiniVideoSceneWidget.model
miniVideoSceneModel ==
    VideoScene(<<"Example Video Scene">>, <<"Displays video">>, NumberValue(10),
               CommandSequence(<<>>), CommandSequence(<<>>), NumberValue(0),
               VideoValue("9bZkp7q19f0"))

\* MiniTextSceneWidget.model
miniTextSceneModel ==
    TextScene(<<"Example Text Scene">>, <<"Displays title">>, NumberValue(2),
              CommandSequence(<<>>), CommandSequence(<<>>),
              YoutubeVideoGetTitle(VideoValue("9bZkp7q19f0")))

\* w.model() for the widget w
model(w) ==
    CASE w.cls = "NumberValueWidget" -> NumberValue(float(w.number))
      [] w.cls = "TextValueWidget" -> TextValue(w.text)
      [] w.cls = "VideoValueWidget" -> VideoValue(w.value)
      [] w.cls = "GetWidget" -> GetVariableExpression(w.name)
      [] w.cls = "SetWidget" -> setModel(w)
      [] w.cls = "NumberOperatorWidget" -> numberOperatorModel(w)
      [] w.cls \in GapClasses -> gapModel(w)
      [] w.cls = "CommandSequenceWidget" -> commandSequenceModel(w)
      [] w.cls = "ActWidget" -> actModel(w)
      [] w.cls = "VideoSceneWidget" -> videoSceneModel(w)
      [] w.cls = "TextSceneWidget" -> textSceneModel(w)
      [] w.cls = "MiniVideoSceneWidget" -> miniVideoSceneModel
      [] w.cls = "MiniTextSceneWidget" -> miniTextSceneModel
      [] OTHER -> youtubeModel(w)

(*************************************************************************)
(* The widget tree: children, paths, access and update by path.          *)
(*************************************************************************)
\* the steps from widget w to its child widgets
children(w) ==
    CASE w.cls \in GapClasses ->
            IF isFull(w) THEN {Step("child", 0)} ELSE {}
      [] w.cls \in ListClasses ->
            {Step("elems", k) : k \in 1..Len(w.elems)} \cup {Step("gap", 0)}
      [] w.cls = "SetWidget" -> {Step("value", 0)}
      [] w.cls = "NumberOperatorWidget" -> {Step("operand1", 0), Step("operand2", 0)}
      [] w.cls = "VideoSceneWidget" ->
            {Step("preCommands", 0), Step("postCommands", 0), Step("source", 0),
             Step("duration", 0), Step("offset", 0)}
      [] w.cls = "TextSceneWidget" ->
            {Step("preCommands", 0), Step("postCommands", 0), Step("text", 0),
             Step("duration", 0)}
      [] w.cls \in {"YoutubeVideoGetTitleWidget", "YoutubeVideoGetRelatedWidget"} ->
            {Step("video", 0)}
      [] w.cls = "YoutubeVideoCollectionRandomWidget" -> {Step("videoCollection", 0)}
      [] OTHER -> {}

\* the child of w one step down
child(w, st) == IF st.i = 0 THEN w[st.f] ELSE w[st.f][st.i]

RECURSIVE paths(_)
\* the paths of all widgets of the tree w (<<>> is w itself)
paths(w) ==
    {<<>>} \cup UNION {{<<st>> \o p : p \in paths(child(w, st))} : st \in children(w)}

RECURSIVE node(_, _)
\* the widget at path p of the tree w
node(w, p) == IF p = <<>> THEN w ELSE node(child(w, Head(p)), Tail(p))

RECURSIVE replace(_, _, _)
\* the tree w with the widget at path p replaced by n
replace(w, p, n) ==
    IF p = <<>> THEN n
    ELSE LET st == Head(p)
             c == replace(child(w, st), Tail(p), n)
         IN IF st.i = 0 THEN [w EXCEPT ![st.f] = c]
            ELSE [w EXCEPT ![st.f][st.i] = c]

\* the proper prefixes of path p, longest first excluded: paths of the ancestors
ancestors(p) == {SubSeq(p, 1, k) : k \in 0..(Len(p) - 1)}

(*************************************************************************)
(* Classes by capability.                                                *)
(*************************************************************************)
\* the classes that mix in DraggableMixin
Draggable ==
    {"MiniVideoSceneWidget", "MiniTextSceneWidget", "GetWidget", "SetWidget",
     "TextValueWidget", "NumberValueWidget", "VideoValueWidget",
     "NumberOperatorWidget", "YoutubeVideoGetTitleWidget",
     "YoutubeVideoGetRelatedWidget", "YoutubeVideoCollectionRandomWidget"}

\* the classes that mix in ChangeableMixin
Changeable ==
    {"ActWidget", "VideoSceneWidget", "TextSceneWidget", "CommandSequenceWidget",
     "GetWidget", "SetWidget", "TextValueWidget", "NumberValueWidget",
     "VideoValueWidget", "NumberOperatorWidget"} \cup GapClasses

\* the classes that define setReadOnly
HasSetReadOnly ==
    (Draggable \cup GapClasses \cup ListGapClasses)

\* a faulty isAcceptable: the video collection gap tests for a video, as
\* its model() returns the Gap of a video
isAcceptableVideoForCollection(w, component) ==
    CASE w.cls = "NumberGapWidget" -> isinstance(component, NumberExpression)
      [] w.cls = "TextGapWidget" -> isinstance(component, TextExpression)
      [] w.cls = "VideoGapWidget" -> isinstance(component, VideoExpression)
      [] w.cls = "VideoCollectionGapWidget" -> isinstance(component, VideoExpression)
      [] w.cls = "CommandGapWidget" -> isinstance(component, Statement)
      [] w.cls = "SceneGapWidget" -> isinstance(component, Scene)

\* a faulty isAcceptable: the gap of a list accepts every component
isAcceptableAnyForList(w, component) ==
    CASE w.cls = "NumberGapWidget" -> isinstance(component, NumberExpression)
      [] w.cls = "TextGapWidget" -> isinstance(component, TextExpression)
      [] w.cls = "VideoGapWidget" -> isinstance(component, VideoExpression)
      [] w.cls = "VideoCollectionGapWidget" ->
            isinstance(component, VideoCollectionExpression)
      [] w.cls = "CommandGapWidget" -> TRUE
      [] w.cls = "SceneGapWidget" -> TRUE

\* NumberGapWidget.isAcceptable, TextGapWidget.isAcceptable,
\* VideoGapWidget.isAcceptable, VideoCollectionGapWidget.isAcceptable,
\* CommandGapWidget.isAcceptable, SceneGapWidget.isAcceptable
isAcceptable(w, component) ==
    CASE w.cls = "NumberGapWidget" -> isinstance(component, NumberExpression)
      [] w.cls = "TextGapWidget" -> isinstance(component, TextExpression)
      [] w.cls = "VideoGapWidget" -> isinstance(component, VideoExpression)
      [] w.cls = "VideoCollectionGapWidget" ->
            isinstance(component, VideoCollectionExpression)
      [] w.cls = "CommandGapWidget" -> isinstance(component, Statement)
      [] w.cls = "SceneGapWidget" -> isinstance(component, Scene)

\* a faulty dragEnterEvent: isAcceptable is not asked
dragEnterAcceptsAnyComponent(w, component) ==
    IF ~w.readOnly THEN TRUE ELSE FALSE

\* a faulty dragEnterEvent: _readOnly is not tested
dragEnterIgnoresReadOnly(w, component) ==
    IF isAcceptable(w, component) THEN TRUE ELSE FALSE

\* GapWidget.dragEnterEvent / ListGapWidget.dragEnterEvent: whether the
\* event is accepted (the payload always has the component format)
dragEnterAccepts(w, component) ==
    IF ~w.readOnly
    THEN IF isAcceptable(w, component) THEN TRUE ELSE FALSE
    ELSE FALSE

RECURSIVE setReadOnly(_, _)
\* w.setReadOnly(ro) for a widget of a class that defines it
setReadOnly(w, ro) ==
    CASE w.cls \in GapClasses \cup ListGapClasses -> [w EXCEPT !.readOnly = ro]
      [] w.cls \in {"TextValueWidget", "NumberValueWidget", "VideoValueWidget"} ->
            [w EXCEPT !.readOnly = ro]
      [] w.cls = "SetWidget" -> [w EXCEPT !.value = setReadOnly(@, ro)]
      [] w.cls = "NumberOperatorWidget" ->
            [w EXCEPT !.operand1 = setReadOnly(@, ro),
                      !.operand2 = setReadOnly(@, ro)]
      [] w.cls \in {"YoutubeVideoGetTitleWidget", "YoutubeVideoGetRelatedWidget"} ->
            [w EXCEPT !.video = setReadOnly(@, ro)]
      [] w.cls = "YoutubeVideoCollectionRandomWidget" ->
            [w EXCEPT !.videoCollection = setReadOnly(@, ro)]
      [] OTHER -> w

\* a faulty emptyGap: an empty gap is emptied again without an exception
emptyGapOfEmptyReturns(gap, at) == Ok(emptyGapInner(gap), <<at>>)

\* GapWidget.emptyGap on the gap at path at
emptyGap(gap, at) ==
    IF ~isFull(gap) THEN Fail(gap, "RuntimeError")
    ELSE Ok(emptyGapInner(gap), <<at>>)

(*************************************************************************)
(* The widget objects.  The tree above holds the widgets by value; which *)
(* object sits at a path is kept beside it: obj gives the object held at *)
(* each path of the root tree (by the _child of a gap, the list of a     *)
(* list widget or the attribute of a compound widget, which is also its  *)
(* Qt parent), detached the objects _emptyGap has taken out of their     *)
(* gap.  A constructor call makes a new object: it is named by the       *)
(* number of the build call that made it and the path it was made for.   *)
(*************************************************************************)
\* no object at all
NoObjects == [obj |-> [p \in {} |-> None], detached |-> {}, builds |-> 0]

\* a faulty factory: build hands out again the widget objects it made for
\* a path the first time
madeFromCache(w, at, b) ==
    [p \in {at \o q : q \in paths(w)} |-> [build |-> 0, at |-> p]]

\* the objects build number b makes for the widget tree w at path at: one
\* new object for each widget of the tree
made(w, at, b) ==
    [p \in {at \o q : q \in paths(w)} |-> [build |-> b, at |-> p]]

\* the paths of h.obj at or below path at
below(h, at) ==
    {p \in DOMAIN h.obj : Len(p) >= Len(at) /\ SubSeq(p, 1, Len(at)) = at}

\* GapWidget._emptyGap on the full gap at path at: removeWidget,
\* setParent(None) and _child = None take the child and the widgets in it
\* out of the tree
release(h, at) ==
    LET gone == below(h, at \o <<Step("child", 0)>>)
    IN [h EXCEPT !.obj = [p \in DOMAIN h.obj \ gone |-> h.obj[p]],
                 !.detached = @ \cup {h.obj[p] : p \in gone}]

\* the widget tree w that a build call returned is stored at path at
\* (self._child = ..., self._scenes.append(...), self._commands.append(...))
hold(h, w, at) ==
    [h EXCEPT !.obj = made(w, at, h.builds) @@ h.obj, !.builds = @ + 1]

\* the objects after GapWidget.fillGap on the gap at path at, which was gap
\* before the call and is filled after it: _emptyGap when the gap was full,
\* and the widget build returned, when it returned one, stored as the child
fillGapObjects(h, gap, filled, at) ==
    LET h1 == IF isFull(gap) THEN release(h, at) ELSE h
    IN IF isFull(filled)
       THEN hold(h1, filled.child, at \o <<Step("child", 0)>>)
       ELSE h1

\* the objects after GapWidget.emptyGap() on the gap at path at
emptyGapObjects(h, gap, at) == IF isFull(gap) THEN release(h, at) ELSE h

\* the objects after addCommand / addScene on the list at path at, which
\* was list before the call and is added after it: the widget build
\* returned, when it returned one, appended to the elements
addElementObjects(h, list, added, at) ==
    LET n == Len(list.elems) + 1
    IN IF Len(added.elems) = n
       THEN hold(h, added.elems[n], at \o <<Step("elems", n)>>)
       ELSE h

(*************************************************************************)
(* Inputs: the components the editor is opened on, the texts a user      *)
(* types and the components a caller passes to fillGap.                  *)
(*************************************************************************)
N1 == NumberValue(1)

N2 == NumberValue(2)

V1 == VideoValue("9bZkp7q19f0")

Set1 == SetVariableStatement("item", N1)

Text1 ==
    TextScene(<<"T">>, <<"c">>, N2, CommandSequence(<<Set1>>),
              CommandSequence(<<>>), TextValue("a"))

Text0 ==
    TextScene(<<"T">>, <<"c">>, NumberGap, CommandSequence(<<>>),
              CommandSequence(<<>>), TextGap)

Video1 ==
    VideoScene(<<"T">>, <<"c">>, N1, CommandSequence(<<>>),
               CommandSequence(<<>>), N2, V1)

RootValues ==
    {N1, Add(N1, N2), Subtract(NumberGap, NumberGap), Multiply(N1, N2),
     TextValue("a"), V1, GetVariableExpression("item"),
     GetVariableExpression("volume"),
     SetVariableStatement("curr_offset", N1),
     CommandSequence(<<Set1>>), Text1, Video1,
     YoutubeVideoGetTitle(YoutubeVideoCollectionRandom(VideoCollectionGap)),
     YoutubeVideoGetRelated(VideoGap),
     YoutubeVideoCollectionRandom(YoutubeVideoGetRelated(V1)),
     Act(<<Text0>>), Act(<<>>),
     NumberGap, TextGap, VideoGap, VideoCollectionGap}

TextTexts == {"a", "b"}

VideoTexts == {"9bZkp7q19f0", "kffacxfA7G4"}

CommentTexts == {<<"T">>, <<"T", "\n", "c", "\n", "d">>}

\* the components a caller passes to fillGap directly
FillValues ==
    {NumberGap, TextGap, VideoGap, VideoCollectionGap, N2, Multiply(N1, N2),
     TextValue("b"), V1, YoutubeVideoGetRelated(V1)}

(*************************************************************************)
(* State.                                                                *)
(*************************************************************************)
VARIABLES
    root,      \* the root widget (None when its construction raised)
    drag,      \* the drag in progress
    moving,    \* path of the widget whose mouse move event is in flight
    posted,    \* receivers of the posted script change events, in order
    notified,  \* script change events that reached the owner of the root
               \* since the last user operation
    last,      \* the last operation: name, target, argument, exception
    ops,       \* edits, drags and application calls so far
    orphan,    \* the occupant a drop displaced while the mouse move event
               \* of a widget inside it is in flight (None otherwise);
               \* moving and drag.src are then paths from this widget
    signals,   \* the dragStarted and dragFinished signals emitted by the
               \* last drag, in order
    heap,      \* the widget objects: those held in the root tree, by path,
               \* and those taken out of it
    call       \* the call of model() or isAcceptable() the application is
               \* making, with what it returned and whether it is the first
               \* or the second call in a row

vars ==
    <<root, drag, moving, posted, notified, last, ops, orphan, signals, heap, call>>

NoPath == <<Step("nowhere", 0)>>

MiniVideoPath == <<Step("MiniVideoSceneWidget", 0)>>

MiniTextPath == <<Step("MiniTextSceneWidget", 0)>>

MiniPaths == {MiniVideoPath, MiniTextPath}

\* the tree the widgets of the gesture in flight live in
sourceTree == IF orphan # None THEN orphan ELSE root

\* the widget a drag source path stands for
sourceWidget(p) ==
    IF p \in MiniPaths THEN [cls |-> p[1].f] ELSE node(sourceTree, p)

NoDrag ==
    [st |-> "Idle", src |-> NoPath, payload |-> None, over |-> NoPath,
     accepted |-> FALSE]

\* no call of model() or isAcceptable() since the last other step
NoCall == [op |-> "none", at |-> NoPath, arg |-> None, result |-> None, n |-> 0]

Str(t) == [cls |-> "str", value |-> t]

Bool(b) == [cls |-> "bool", value |-> b]

Last(op, at, arg, raised) == [op |-> op, at |-> at, arg |-> arg, raised |-> raised]

Init ==
    \E x \in RootValues :
        LET r == build(x, <<>>)
        IN /\ root = r.w
           /\ posted = r.posts
           /\ last = Last("build", <<>>, x, r.err)
           /\ drag = NoDrag
           /\ moving = NoPath
           /\ notified = 0
           /\ ops = 0
           /\ orphan = None
           /\ signals = <<>>
           /\ heap = IF root = None THEN NoObjects ELSE hold(NoObjects, root, <<>>)
           /\ call = NoCall

\* the paths of the widgets of the root tree
Paths == IF root = None THEN {} ELSE paths(root)

\* a user gesture or an outside call is handled when the event loop has
\* delivered the posted events and no drag is in progress
Ready ==
    /\ drag.st = "Idle" /\ moving = NoPath /\ posted = <<>> /\ ops < MaxOps
    /\ call = NoCall

\* a handler at path p changed widget p to w and posted to receivers ps
Commit(p, w, ps, l) ==
    /\ root' = replace(root, p, w)
    /\ posted' = posted \o ps
    /\ last' = l
    /\ notified' = 0
    /\ ops' = ops + 1
    /\ call' = NoCall

(*************************************************************************)
(* Edits of the primitive controls: the control changes and its change   *)
(* signal calls _postScriptChangeEvent of the widget.                    *)
(*************************************************************************)
\* the user types text into the line edit of the value widget at p
EditLine ==
    /\ Ready
    /\ \E p \in Paths, text \in NumberTexts \cup TextTexts \cup VideoTexts :
       LET w == node(root, p)
       IN /\ w.cls \in {"NumberValueWidget", "TextValueWidget", "VideoValueWidget"}
          /\ ~w.readOnly
          /\ \/ /\ w.cls = "NumberValueWidget" /\ text \in NumberTexts
                /\ text # w.number
                /\ Commit(p, [w EXCEPT !.number = text], <<p>>,
                          Last("textChanged", p, Str(text), ""))
             \/ /\ w.cls = "TextValueWidget" /\ text \in TextTexts
                /\ text # w.text
                /\ Commit(p, [w EXCEPT !.text = text], <<p>>,
                          Last("textChanged", p, Str(text), ""))
             \/ /\ w.cls = "VideoValueWidget" /\ text \in VideoTexts
                /\ text # w.value
                /\ Commit(p, [w EXCEPT !.value = text], <<p>>,
                          Last("textChanged", p, Str(text), ""))
    /\ UNCHANGED <<drag, moving, orphan, signals, heap>>

\* the user types text into the comment box of the scene at p
EditComment ==
    /\ Ready
    /\ \E p \in Paths, text \in CommentTexts :
       LET w == node(root, p)
       IN /\ w.cls \in {"VideoSceneWidget", "TextSceneWidget"}
          /\ text # w.comment
          /\ Commit(p, [w EXCEPT !.comment = text], <<p>>,
                    Last("textChanged", p, Str("comment"), ""))
    /\ UNCHANGED <<drag, moving, orphan, signals, heap>>

\* the user selects item k of the combo box of the widget at p
SelectItem ==
    /\ Ready
    /\ \E p \in Paths, k \in 1..Len(VARIABLE_NAMES) :
       LET w == node(root, p)
       IN \/ /\ w.cls \in {"GetWidget", "SetWidget"}
             /\ k \in 1..Len(VARIABLE_NAMES)
             /\ VARIABLE_NAMES[k] # w.name
             /\ Commit(p, [w EXCEPT !.name = VARIABLE_NAMES[k]], <<p>>,
                       Last("currentIndexChanged", p, Str(VARIABLE_NAMES[k]), ""))
          \/ /\ w.cls = "NumberOperatorWidget"
             /\ k \in 1..Len(OperatorItems)
             /\ OperatorItems[k] # w.operator
             /\ Commit(p, [w EXCEPT !.operator = OperatorItems[k]], <<p>>,
                       Last("currentIndexChanged", p, Str(OperatorItems[k]), ""))
    /\ UNCHANGED <<drag, moving, orphan, signals, heap>>

(*************************************************************************)
(* Calls from the application.                                           *)
(*************************************************************************)
\* setReadOnly(ro) on the widget at p; a class without the method raises.
\* The application sets the flag, and clears it where it is set.
SetReadOnly ==
    /\ Ready
    /\ \E p \in Paths, ro \in BOOLEAN :
       LET w == node(root, p)
       IN IF w.cls \in HasSetReadOnly
          THEN /\ ro \/ setReadOnly(w, ro) # w
               /\ Commit(p, setReadOnly(w, ro), <<>>,
                         Last("setReadOnly", p, Bool(ro), ""))
          ELSE /\ ro
               /\ Commit(p, w, <<>>,
                         Last("setReadOnly", p, Bool(ro), "AttributeError"))
    /\ UNCHANGED <<drag, moving, orphan, signals, heap>>

\* emptyGap() on the gap at p
EmptyGap ==
    /\ Ready
    /\ \E p \in Paths :
       LET w == node(root, p)
           r == emptyGap(w, p)
       IN /\ w.cls \in GapClasses
          /\ Commit(p, r.w, r.posts, Last("emptyGap", p, None, r.err))
          /\ heap' = emptyGapObjects(heap, w, p)
    /\ UNCHANGED <<drag, moving, orphan, signals>>

\* fillGap(v) on the gap at p, called with a component the gap accepts
FillGap ==
    /\ Ready
    /\ \E p \in Paths, v \in FillValues :
       LET w == node(root, p)
           r == fillGap(w, v, p)
       IN /\ w.cls \in GapClasses
          /\ isAcceptable(w, v)
          /\ Commit(p, r.w, r.posts, Last("fillGap", p, v, r.err))
          /\ heap' = fillGapObjects(heap, w, node(root', p), p)
    /\ UNCHANGED <<drag, moving, orphan, signals>>

\* the components the application asks isAcceptable about
AskedValues == {N2, TextValue("b"), Set1, Video1}

\* the application calls a method that returns a value, when nothing else
\* is going on; it may call it once more before it goes on
Asking(op, p, arg) ==
    /\ drag.st = "Idle" /\ moving = NoPath /\ posted = <<>> /\ ops < MaxOps
    /\ \/ call = NoCall
       \/ call.op = op /\ call.at = p /\ call.arg = arg /\ call.n = 1

\* a faulty model(): the widget posts a script change event when asked
CallModelPostsEvent ==
    /\ \E p \in {q \in Paths : node(root, q).cls \notin ListGapClasses} :
          /\ Asking("model", p, None)
          /\ call' = [op |-> "model", at |-> p, arg |-> None,
                      result |-> model(node(root, p)), n |-> call.n + 1]
          /\ posted' = Append(posted, p)
    /\ UNCHANGED <<root, drag, moving, notified, last, ops, orphan, signals, heap>>

\* model() on the widget at p, of a class that defines it: the methods read
\* the controls and the child widgets and build a component (or raise);
\* they assign nothing
CallModel ==
    /\ \E p \in {q \in Paths : node(root, q).cls \notin ListGapClasses} :
          /\ Asking("model", p, None)
          /\ call' = [op |-> "model", at |-> p, arg |-> None,
                      result |-> model(node(root, p)), n |-> call.n + 1]
    /\ UNCHANGED <<root, drag, moving, posted, notified, last, ops, orphan,
                   signals, heap>>

\* isAcceptable(c) on the gap or list gap at p
CallIsAcceptable ==
    /\ \E p \in {q \in Paths : node(root, q).cls \in GapClasses \cup ListGapClasses},
          c \in AskedValues :
          /\ Asking("isAcceptable", p, c)
          /\ call' = [op |-> "isAcceptable", at |-> p, arg |-> c,
                      result |-> Bool(isAcceptable(node(root, p), c)),
                      n |-> call.n + 1]
    /\ UNCHANGED <<root, drag, moving, posted, notified, last, ops, orphan,
                   signals, heap>>

\* the application goes on with what the call returned
Return ==
    /\ call # NoCall
    /\ call' = NoCall
    /\ UNCHANGED <<root, drag, moving, posted, notified, last, ops, orphan,
                   signals, heap>>

(*************************************************************************)
(* The drag protocol.                                                    *)
(*************************************************************************)
\* dragStarted.emit(lc)
dragStarted(lc) == [signal |-> "dragStarted", lc |-> lc]

\* dragFinished.emit()
dragFinished == [signal |-> "dragFinished", lc |-> None]

\* DraggableMixin.startDrag up to drag.start(): the payload is the pickled
\* model() of the source; model() may raise
startDrag(src) ==
    LET lc == model(sourceWidget(src))
    IN IF isRaised(lc)
       THEN /\ drag' = NoDrag
            /\ moving' = NoPath
            /\ orphan' = None
            /\ last' = Last("startDrag", src, None, lc.exc)
            /\ signals' = <<>>
       ELSE /\ drag' = [st |-> "Dragging", src |-> src, payload |-> lc,
                        over |-> NoPath, accepted |-> FALSE]
            /\ moving' = src
            /\ orphan' = orphan
            /\ last' = last
            /\ signals' = <<dragStarted(lc)>>

\* DraggableMixin.mouseMoveEvent of the widget at src, on a press-and-move
\* of the user
MouseMove ==
    /\ Ready
    /\ \E src \in MiniPaths \cup {p \in Paths : node(root, p).cls \in Draggable} :
          startDrag(src)
    /\ ops' = ops + 1
    /\ call' = NoCall
    /\ UNCHANGED <<root, posted, notified, heap>>

\* the paths of the gaps and list gaps of the root tree
Targets == {p \in Paths : node(root, p).cls \in GapClasses \cup ListGapClasses}

\* GapWidget.dragEnterEvent / ListGapWidget.dragEnterEvent of the target
\* at t: the drag moves over it
DragEnter ==
    /\ drag.st = "Dragging" /\ posted = <<>>
    /\ \E t \in Targets \ {drag.over} :
          drag' = [drag EXCEPT !.over = t,
                               !.accepted = dragEnterAccepts(node(root, t),
                                                             drag.payload)]
    /\ call' = NoCall
    /\ UNCHANGED <<root, moving, posted, notified, last, ops, orphan, signals, heap>>

\* the path p seen from the occupant of the gap at t, when p lies in it
inOccupant(t, p) ==
    /\ Len(p) > Len(t)
    /\ SubSeq(p, 1, Len(t) + 1) = t \o <<Step("child", 0)>>

\* a faulty drop: the drag stays active after the drop, so that the payload
\* can be dropped again
DropLeavesDragActive ==
    /\ drag.st = "Dragging" /\ drag.over # NoPath /\ drag.accepted
    /\ LET t == drag.over
           w == node(root, t)
           parent == SubSeq(t, 1, Len(t) - 1)
           r == CASE w.cls \in GapClasses -> fillGap(w, drag.payload, t)
                  [] w.cls = "CommandGapWidget" ->
                        addCommand(node(root, parent), drag.payload, parent)
                  [] w.cls = "SceneGapWidget" ->
                        addScene(node(root, parent), drag.payload, parent)
           at == IF w.cls \in GapClasses THEN t ELSE parent
           displaced == /\ w.cls \in GapClasses /\ orphan = None
                        /\ moving \notin MiniPaths /\ inOccupant(t, moving)
       IN /\ root' = replace(root, at, r.w)
          /\ posted' = posted \o r.posts
          /\ last' = Last("dropEvent", t, drag.payload, r.err)
          /\ notified' = 0
          /\ ops' = ops
          /\ signals' = signals
          /\ call' = NoCall
          /\ heap' = IF w.cls \in GapClasses
                     THEN fillGapObjects(heap, w, node(root', t), t)
                     ELSE addElementObjects(heap, node(root, parent),
                                            node(root', parent), parent)
          /\ IF displaced
             THEN /\ orphan' = w.child
                  /\ moving' = SubSeq(moving, Len(t) + 2, Len(moving))
                  /\ drag' = [drag EXCEPT !.src = moving']
             ELSE /\ orphan' = orphan
                  /\ moving' = moving
                  /\ drag' = drag

\* a faulty drop: a move, the slot that holds the source is emptied after
\* the target has been filled
DropMovesSource ==
    /\ drag.st = "Dragging" /\ drag.over # NoPath /\ drag.accepted
    /\ LET t == drag.over
           w == node(root, t)
           parent == SubSeq(t, 1, Len(t) - 1)
           r == CASE w.cls \in GapClasses -> fillGap(w, drag.payload, t)
                  [] w.cls = "CommandGapWidget" ->
                        addCommand(node(root, parent), drag.payload, parent)
                  [] w.cls = "SceneGapWidget" ->
                        addScene(node(root, parent), drag.payload, parent)
           at == IF w.cls \in GapClasses THEN t ELSE parent
           filled == replace(root, at, r.w)
           owner == SubSeq(drag.src, 1, Len(drag.src) - 1)
           moved == /\ orphan = None /\ drag.src \in paths(filled)
                    /\ Len(drag.src) > 0
                    /\ node(filled, owner).cls \in GapClasses
       IN /\ root' = IF moved
                     THEN replace(filled, owner, emptyGapInner(node(filled, owner)))
                     ELSE filled
          /\ posted' = posted \o r.posts
          /\ last' = Last("dropEvent", t, drag.payload, r.err)
          /\ notified' = 0
          /\ ops' = ops
          /\ signals' = signals
          /\ call' = NoCall
          /\ heap' = heap
          /\ orphan' = orphan
          /\ moving' = NoPath
          /\ drag' = [drag EXCEPT !.st = "Dropped"]

\* GapWidget.dropEvent, CommandGapWidget.dropEvent, SceneGapWidget.dropEvent:
\* the payload is released over the target that accepted the drag
Drop ==
    /\ drag.st = "Dragging" /\ drag.over # NoPath /\ drag.accepted
    /\ LET t == drag.over
           w == node(root, t)
           parent == SubSeq(t, 1, Len(t) - 1)
           r == CASE w.cls \in GapClasses -> fillGap(w, drag.payload, t)
                  [] w.cls = "CommandGapWidget" ->
                        addCommand(node(root, parent), drag.payload, parent)
                  [] w.cls = "SceneGapWidget" ->
                        addScene(node(root, parent), drag.payload, parent)
           at == IF w.cls \in GapClasses THEN t ELSE parent
           displaced == /\ w.cls \in GapClasses /\ orphan = None
                        /\ moving \notin MiniPaths /\ inOccupant(t, moving)
       IN /\ root' = replace(root, at, r.w)
          /\ posted' = posted \o r.posts
          /\ last' = Last("dropEvent", t, drag.payload, r.err)
          /\ notified' = 0
          /\ ops' = ops
          /\ signals' = signals
          /\ call' = NoCall
          /\ heap' = IF w.cls \in GapClasses
                     THEN fillGapObjects(heap, w, node(root', t), t)
                     ELSE addElementObjects(heap, node(root, parent),
                                            node(root', parent), parent)
          /\ IF displaced
             THEN /\ orphan' = w.child
                  /\ moving' = SubSeq(moving, Len(t) + 2, Len(moving))
                  /\ drag' = [drag EXCEPT !.st = "Dropped", !.src = moving']
             ELSE /\ orphan' = orphan
                  /\ moving' = moving
                  /\ drag' = [drag EXCEPT !.st = "Dropped"]

\* the payload is released where no target has accepted it, or the drag is
\* abandoned
Cancel ==
    /\ drag.st = "Dragging"
    /\ drag' = [drag EXCEPT !.st = "Cancelled"]
    /\ call' = NoCall
    /\ UNCHANGED <<root, moving, posted, notified, last, ops, orphan, signals, heap>>

\* the nearest ancestor of the widget at p that is draggable, NoPath if none
nearestDraggable(tree, p) ==
    LET cands == IF p \in MiniPaths THEN {}
                 ELSE {q \in ancestors(p) : node(tree, q).cls \in Draggable}
    IN IF cands = {} THEN NoPath
       ELSE CHOOSE q \in cands : \A q2 \in cands : Len(q2) <= Len(q)

\* a faulty end of startDrag: dragFinished is not emitted
FinishWithoutSignal ==
    /\ drag.st \in {"Dropped", "Cancelled"}
    /\ drag' = NoDrag
    /\ moving' = nearestDraggable(sourceTree, moving)
    /\ orphan' = IF moving' = NoPath THEN None ELSE orphan
    /\ call' = NoCall
    /\ UNCHANGED <<root, posted, notified, last, ops, signals, heap>>

\* drag.start() returns: DraggableMixin.startDrag emits dragFinished and
\* mouseMoveEvent hands the event to QWidget.mouseMoveEvent, which leaves
\* it for the next draggable ancestor
Finish ==
    /\ drag.st \in {"Dropped", "Cancelled"}
    /\ drag' = NoDrag
    /\ moving' = nearestDraggable(sourceTree, moving)
    /\ orphan' = IF moving' = NoPath THEN None ELSE orphan
    /\ signals' = Append(signals, dragFinished)
    /\ call' = NoCall
    /\ UNCHANGED <<root, posted, notified, last, ops, heap>>

\* DraggableMixin.mouseMoveEvent of the ancestor the event was left for
MouseMoveUp ==
    /\ drag.st = "Idle" /\ moving # NoPath
    /\ ops < MaxOps
    /\ startDrag(moving)
    /\ ops' = ops + 1
    /\ call' = NoCall
    /\ UNCHANGED <<root, posted, notified, heap>>

(*************************************************************************)
(* Delivery of a posted script change event.                             *)
(*************************************************************************)
\* the classes of the widgets an event posted to the widget at p passes:
\* the receiver and its ancestors; the gaps of a scene sit in a plain
\* QWidget between them and the scene
passes(p) ==
    {node(root, q).cls : q \in ancestors(p) \cup {p}}
    \cup {"QWidget" : q \in {q \in ancestors(p) \cup {p} :
                /\ q # <<>>
                /\ node(root, q).cls \in GapClasses
                /\ node(root, SubSeq(q, 1, Len(q) - 1)).cls
                       \in {"VideoSceneWidget", "TextSceneWidget"}}}

\* ChangeableMixin.event ignores the event in every widget it passes, so
\* that it reaches the owner of the root
reachesOwner(p) == passes(p) \subseteq Changeable

\* the event loop sends the posted events
Deliver ==
    /\ posted # <<>>
    /\ posted' = <<>>
    /\ notified' = notified
            + Cardinality({k \in 1..Len(posted) : reachesOwner(posted[k])})
    /\ call' = NoCall
    /\ UNCHANGED <<root, drag, moving, last, ops, orphan, signals, heap>>

Next ==
    \/ EditLine
    \/ EditComment
    \/ SelectItem
    \/ SetReadOnly
    \/ EmptyGap
    \/ FillGap
    \/ CallModel
    \/ CallIsAcceptable
    \/ Return
    \/ MouseMove
    \/ DragEnter
    \/ Drop
    \/ Cancel
    \/ Finish
    \/ MouseMoveUp
    \/ Deliver

Spec == Init /\ [][Next]_vars

\* drag.start() returns: the user releases the mouse button in the end, and
\* startDrag then runs to its end
FairSpec == Spec /\ WF_vars(Cancel) /\ WF_vars(Finish)

(*************************************************************************)
(* Properties.                                                           *)
(*************************************************************************)
\* the gap at the target of the last fill or drop, when the target is a gap
lastGap == node(root, last.at)

\* the last operation was fillGap on a gap (called directly or by a drop)
lastIsFill ==
    /\ last.op \in {"fillGap", "dropEvent"}
    /\ root # None
    /\ last.at \in Paths
    /\ lastGap.cls \in GapClasses

\* the paths of the widgets nested in the widget at p
nestedIn(p) == {q \in Paths : Len(q) > Len(p) /\ SubSeq(q, 1, Len(p)) = p}

\* one component of every class
Components ==
    {N1, Add(N1, N2), Subtract(N1, N2), Multiply(N1, N2), TextValue("a"), V1,
     GetVariableExpression("item"), Set1, CommandSequence(<<>>), Text0, Video1,
     YoutubeVideoGetTitle(V1), YoutubeVideoGetRelated(V1),
     YoutubeVideoCollectionRandom(VideoCollectionGap), Act(<<>>),
     NumberGap, TextGap, VideoGap, VideoCollectionGap}

\* the category a component class belongs to, Gap classes with their family
categoryOf(cls) ==
    CASE cls \in {"NumberValue", "Add", "Subtract", "Multiply", "NumberGap"} ->
            "NumberExpression"
      [] cls \in {"TextValue", "YoutubeVideoGetTitle", "TextGap"} -> "TextExpression"
      [] cls \in {"VideoValue", "YoutubeVideoCollectionRandom", "VideoGap"} ->
            "VideoExpression"
      [] cls \in {"YoutubeVideoGetRelated", "VideoCollectionGap"} ->
            "VideoCollectionExpression"
      [] cls \in {"GetVariableExpression", "SetVariableStatement"} -> "Statement"
      [] cls \in {"TextScene", "VideoScene"} -> "Scene"
      [] OTHER -> "LanguageComponent"

\* the category a slot flavor accepts
acceptedCategory(cls) ==
    CASE cls = "NumberGapWidget" -> "NumberExpression"
      [] cls = "TextGapWidget" -> "TextExpression"
      [] cls = "VideoGapWidget" -> "VideoExpression"
      [] cls = "VideoCollectionGapWidget" -> "VideoCollectionExpression"

\* the Gap of the family of a slot flavor
ownGap(cls) ==
    CASE cls = "NumberGapWidget" -> NumberGap
      [] cls = "TextGapWidget" -> TextGap
      [] cls = "VideoGapWidget" -> VideoGap
      [] cls = "VideoCollectionGapWidget" -> VideoCollectionGap

\* C1: a widget built from a component of a class with a registered builder
\* is built without an exception and its model() equals the component.
C1_RoundTrip ==
    (last.op = "build" /\ last.arg.cls \in builders)
        => (last.raised = "" /\ model(root) = last.arg)

\* C2: right after a drop on a slot, the drop has raised nothing, the slot
\* is full and its model() equals the payload, the model() of the source
\* taken at the start of the drag.
C2_DropFillsWithPayload ==
    (drag.st = "Dropped" /\ lastIsFill)
        => /\ last.raised = ""
           /\ isFull(lastGap)
           /\ model(lastGap) = drag.payload

\* C3: a slot accepts a component exactly when the category of the
\* component, a Gap counted with its family, is the category of the slot
\* flavor; a drag over a slot that is not read-only is accepted exactly then.
C3_AcceptableIffCategory ==
    /\ \A p \in Paths :
          LET w == node(root, p)
          IN w.cls \in GapClasses =>
                \A c \in Components :
                   isAcceptable(w, c)
                       <=> (categoryOf(c.cls) = acceptedCategory(w.cls))
    /\ (/\ drag.st = "Dragging" /\ drag.over # NoPath
        /\ node(root, drag.over).cls \in GapClasses
        /\ ~node(root, drag.over).readOnly)
          => (drag.accepted <=>
                categoryOf(drag.payload.cls)
                    = acceptedCategory(node(root, drag.over).cls))

\* a drag of a video collection moves over a video collection slot, which
\* accepts it
C3_Witness ==
    /\ drag.st = "Dragging" /\ drag.over # NoPath
    /\ node(root, drag.over).cls = "VideoCollectionGapWidget"
    /\ drag.payload.cls = "YoutubeVideoGetRelated"
    /\ drag.accepted

\* C4: model() of an empty slot is the Gap of the family of the slot.
C4_EmptySlotModelsOwnGap ==
    \A p \in Paths :
        (node(root, p).cls \in GapClasses /\ ~isFull(node(root, p)))
            => model(node(root, p)) = ownGap(node(root, p).cls)

\* C5: after setReadOnly(True) on a widget that has nested slots, no nested
\* slot accepts the drag of any component.
C5_ReadOnlyRejectsAll ==
    (last.op = "setReadOnly" /\ last.arg.value /\ last.raised = ""
     /\ node(root, last.at).cls \notin GapClasses)
        => \A q \in nestedIn(last.at) :
              node(root, q).cls \in GapClasses =>
                 \A c \in Components : ~dragEnterAccepts(node(root, q), c)

\* C6: after setReadOnly(True) on a widget or a slot, every slot, list gap
\* and line edit nested in it at any depth is read-only.
C6_ReadOnlyPropagates ==
    (last.op = "setReadOnly" /\ last.arg.value /\ last.raised = "")
        => \A q \in nestedIn(last.at) :
              node(root, q).cls \in GapClasses \cup ListGapClasses
                    \cup {"TextValueWidget", "NumberValueWidget", "VideoValueWidget"}
                 => node(root, q).readOnly

\* a step of a drag that does not drop, or the end of a cancelled drag
cancelStep ==
    \/ drag.st = "Dragging" /\ drag'.st # "Dropped"
    \/ drag.st = "Cancelled"

\* the drag is over nothing, over a read-only target or over a target that
\* does not accept the payload
notDroppable ==
    \/ drag.over = NoPath
    \/ node(root, drag.over).readOnly
    \/ ~isAcceptable(node(root, drag.over), drag.payload)

\* C7: a drag released over no target, over a read-only target or over a
\* target that rejects the payload is not dropped, and a drag that is not
\* dropped changes no widget of the tree and posts no script change event.
C7_CancelMutatesNothing ==
    [][/\ (drag.st = "Dragging" /\ notDroppable) => drag'.st # "Dropped"
       /\ cancelStep => (root' = root /\ Len(posted') <= Len(posted))]_vars

\* a text released over a number slot: the drag ends cancelled
C7_Witness ==
    /\ drag.st = "Cancelled" /\ drag.over # NoPath
    /\ drag.payload.cls = "TextValue"
    /\ node(root, drag.over).cls = "NumberGapWidget"
    /\ ~drag.accepted

\* a step that is a fillGap on the gap at p, called directly or by a drop
fillStep(p) ==
    /\ last'.op \in {"fillGap", "dropEvent"}
    /\ last'.at = p
    /\ \/ ops' = ops + 1
       \/ drag.st = "Dragging" /\ drag'.st = "Dropped"

\* C8: a fillGap on a full slot, with a component the slot accepts that is
\* not a Gap, returns and leaves the slot full with model() equal to that
\* component.
C8_RefillModelsNewValue ==
    [][\A p \in Paths :
          (/\ node(root, p).cls \in GapClasses
           /\ isFull(node(root, p))
           /\ fillStep(p)
           /\ ~isinstance(last'.arg, Gap))
             => /\ last'.raised = ""
                /\ isFull(node(root', p))
                /\ model(node(root', p)) = last'.arg]_vars

\* C9: a slot is not full right after emptyGap() and right after a fillGap
\* with a Gap, and is full right after a fillGap with another component that
\* returned.
C9_IsFullAfterEmptyAndFill ==
    /\ (last.op = "emptyGap" /\ last.raised = "") => ~isFull(lastGap)
    /\ (lastIsFill /\ last.raised = "")
          => (isFull(lastGap) <=> ~isinstance(last.arg, Gap))

\* the first operand slot of an operator built with both operands, full
\* until then, was filled with a Gap by a call that returned
C9_Witness ==
    /\ last.op = "fillGap" /\ last.raised = "" /\ isinstance(last.arg, Gap)
    /\ ops = 1
    /\ root.cls = "NumberOperatorWidget" /\ isFull(root.operand2)
    /\ last.at = <<Step("operand1", 0)>>
    /\ ~isFull(lastGap)

\* the elements of the component the list widget w stands for
modelled(w) ==
    IF w.cls = "ActWidget" THEN model(w).scenes ELSE model(w).commands

\* C10: a step leaves every list with its elements where they were and adds
\* at most one, at the end, which is the widget built from the component
\* appended by the step; model() of a list has one element for each widget.
C10_AppendOnly ==
    [][root' # root => \A p \in Paths :
          node(root, p).cls \in ListClasses =>
             /\ p \in Paths'
             /\ node(root', p).cls = node(root, p).cls
             /\ LET old == node(root, p).elems
                    new == node(root', p).elems
                IN /\ Len(new) \in {Len(old), Len(old) + 1}
                   /\ \A k \in 1..Len(old) : new[k].cls = old[k].cls
                   /\ Len(new) = Len(old) + 1 =>
                         /\ SubSeq(new, 1, Len(old)) = old
                         /\ last'.op = "dropEvent" /\ last'.raised = ""
                         /\ new[Len(new)]
                               = build(last'.arg, p \o <<Step("elems", Len(new))>>).w
                   /\ isRaised(model(node(root', p)))
                         \/ Len(modelled(node(root', p))) = Len(new)]_vars

\* a video scene and then a text scene were appended to an empty act
C10_Witness ==
    /\ root # None /\ root.cls = "ActWidget"
    /\ last.op = "dropEvent" /\ last.raised = ""
    /\ Len(root.elems) = 2
    /\ root.elems[1].cls = "VideoSceneWidget"
    /\ model(root.elems[2]) = last.arg
    /\ last.arg.cls = "TextScene"
    /\ Len(model(root).scenes) = 2

\* the class of the operator the item of the selector stands for
selected(item) ==
    CASE item = "+" -> "Add" [] item = "-" -> "Subtract" [] item = "*" -> "Multiply"

\* C11: model() of an operator widget whose operands have a model() is the
\* component of the class of the selected operator, "+" Add, "-" Subtract,
\* "*" Multiply, with the model() of the two operand slots as operands.
C11_OperatorModel ==
    \A p \in Paths :
        LET w == node(root, p)
        IN (/\ w.cls = "NumberOperatorWidget"
            /\ ~isRaised(model(w.operand1))
            /\ ~isRaised(model(w.operand2)))
              => model(w) = [cls |-> selected(w.operator),
                             op1 |-> model(w.operand1),
                             op2 |-> model(w.operand2)]

\* a step that is a call of fillGap or emptyGap or a drop on a gap or a
\* list gap
mutatingStep ==
    /\ last'.op \in {"fillGap", "emptyGap", "dropEvent"}
    /\ \/ ops' = ops + 1 /\ drag.st = "Idle" /\ drag'.st = "Idle"
       \/ drag.st = "Dragging" /\ drag'.st = "Dropped"

\* C12: a fill, an empty or an append that raises leaves every slot and list
\* as it was before the call and posts no script change event.
C12_FailureLeavesTreeUnchanged ==
    [][(mutatingStep /\ last'.raised # "")
          => (root' = root /\ posted' = posted)]_vars

\* a step that is a call of emptyGap on the gap at p
emptyStep(p) ==
    /\ last'.op = "emptyGap" /\ last'.at = p
    /\ ops' = ops + 1 /\ drag'.st = "Idle"

\* C13: emptyGap() on an empty slot raises RuntimeError, changes nothing and
\* posts no script change event; on a full slot it returns, leaves the slot
\* empty and posts one script change event to the slot.
C13_EmptyGap ==
    [][\A p \in Paths :
          (node(root, p).cls \in GapClasses /\ emptyStep(p))
             => IF ~isFull(node(root, p))
                THEN /\ last'.raised = "RuntimeError"
                     /\ root' = root
                     /\ posted' = posted
                ELSE /\ last'.raised = ""
                     /\ root' = replace(root, p, [node(root, p) EXCEPT !.child = None])
                     /\ ~isFull(node(root', p))
                     /\ posted' = Append(posted, p)]_vars

\* the value slot of a set statement, full when built, was emptied and
\* emptyGap() was called on it again
C13_Witness ==
    /\ root # None /\ root.cls = "SetWidget"
    /\ ops = 2
    /\ last.op = "emptyGap" /\ last.raised = "RuntimeError"
    /\ last.at = <<Step("value", 0)>>
    /\ ~isFull(root.value)
    /\ posted = <<>>

\* C14: build of a component of a class without a builder, a Gap among
\* them, raises RuntimeError and gives no widget.
C14_UnsupportedComponent ==
    (last.op = "build" /\ last.arg.cls \notin builders)
        => (last.raised = "RuntimeError" /\ root = None /\ posted = <<>>)

\* build was called with the Gap of a video collection
C14_Witness ==
    /\ last.op = "build" /\ last.arg = VideoCollectionGap
    /\ last.raised = "RuntimeError"
    /\ root = None

\* the steps of the drag protocol and the signals they emit
dragOrder ==
    /\ drag.st = "Idle" => drag'.st \in {"Idle", "Dragging"}
    /\ drag.st = "Dragging" => drag'.st \in {"Dragging", "Dropped", "Cancelled"}
    /\ drag.st \in {"Dropped", "Cancelled"} => drag'.st \in {drag.st, "Idle"}
    /\ (drag.st = "Idle" /\ drag'.st = "Dragging")
          => /\ drag'.payload = model(sourceWidget(drag'.src))
             /\ signals' = <<dragStarted(drag'.payload)>>
    /\ (drag.st = "Dragging" /\ drag'.st # "Idle")
          => /\ signals' = signals
             /\ drag'.payload = drag.payload
    /\ (drag.st \in {"Dropped", "Cancelled"} /\ drag'.st = "Idle")
          => signals' = <<dragStarted(drag.payload), dragFinished>>
    /\ (drag.st \in {"Dropped", "Cancelled"} /\ drag'.st # "Idle")
          => signals' = signals
    /\ (drag.st = "Idle" /\ drag'.st = "Idle") => signals' \in {signals, <<>>}

\* C15: a drag goes from Idle to Dragging, then to Dropped or to Cancelled,
\* then to Idle; dragStarted is emitted once, with the model() of the source,
\* when the drag starts and dragFinished once when it returns to Idle; a
\* drag that has started returns to Idle.
C15_DragProtocol ==
    /\ [][dragOrder]_vars
    /\ (drag.st # "Idle") ~> (drag.st = "Idle")

\* a drag that ended with a drop has returned to Idle
C15_Witness ==
    /\ drag.st = "Idle"
    /\ Len(signals) = 2 /\ signals[2] = dragFinished
    /\ last.op = "dropEvent" /\ last.raised = ""

\* the tree after one call of fillGap, addCommand or addScene with the
\* payload on the target the drag is over
droppedOnce ==
    LET t == drag.over
        w == node(root, t)
        parent == SubSeq(t, 1, Len(t) - 1)
    IN IF w.cls \in GapClasses
       THEN replace(root, t, fillGap(w, drag.payload, t).w)
       ELSE replace(root, parent,
                    addElement(node(root, parent), drag.payload, parent).w)

\* C16: while a drag is active the tree changes in one step only, the drop
\* on the target that accepted the drag, after which the drag is Dropped,
\* and the change is that of one call of fillGap, addCommand or addScene
\* with the payload on that target.
C16_PayloadConsumedOnce ==
    [][(drag.st # "Idle" /\ root' # root)
          => /\ drag.st = "Dragging" /\ drag'.st = "Dropped"
             /\ drag.over # NoPath /\ drag.accepted
             /\ root' = droppedOnce]_vars

\* a statement was dropped on the gap of a command sequence, which has one
\* more command
C16_Witness ==
    /\ drag.st = "Dropped"
    /\ root # None /\ root.cls = "CommandSequenceWidget"
    /\ last.op = "dropEvent" /\ last.raised = ""
    /\ last.at = <<Step("gap", 0)>>
    /\ Len(root.elems) = 2
    /\ model(root.elems[2]) = drag.payload

\* the operations that change the component the tree stands for
Mutations ==
    {"textChanged", "currentIndexChanged", "fillGap", "emptyGap", "dropEvent"}

\* C17: once the script change events posted by a mutation that returned
\* have been delivered, at least one of them has reached the owner of the
\* root widget.
C17_NotificationReachesOwner ==
    (/\ last.op \in Mutations /\ last.raised = ""
     /\ posted = <<>>)
        => notified >= 1

\* a step that is a call of fillGap on the gap at p, directly or by a drop
fillCall(p) ==
    /\ last'.op \in {"fillGap", "dropEvent"}
    /\ last'.at = p
    /\ \/ ops' = ops + 1 /\ drag.st = "Idle" /\ drag'.st = "Idle"
       \/ drag.st = "Dragging" /\ drag'.st = "Dropped"

\* C18: a fillGap that returns posts a script change event to its slot as
\* the last thing it does, also when the slot was empty and stays empty.
C18_FillGapAlwaysPosts ==
    [][\A p \in Paths :
          (/\ node(root, p).cls \in GapClasses
           /\ fillCall(p)
           /\ last'.raised = "")
             => /\ Len(posted') > Len(posted)
                /\ posted'[Len(posted')] = p]_vars

\* an empty operand slot of an operator without operands was filled with a
\* Gap: the slot is still empty and the event is posted
C18_Witness ==
    /\ root # None /\ root.cls = "NumberOperatorWidget"
    /\ ops = 1
    /\ last.op = "fillGap" /\ last.raised = "" /\ last.arg = NumberGap
    /\ last.at = <<Step("operand1", 0)>>
    /\ ~isFull(root.operand1) /\ ~isFull(root.operand2)
    /\ posted = <<last.at>>

\* the effect of the last fill, empty or append is in the tree
effectVisible ==
    LET t == last.at
        w == node(root, t)
        parent == SubSeq(t, 1, Len(t) - 1)
    IN IF w.cls \in GapClasses
       THEN IF last.op = "emptyGap" \/ isinstance(last.arg, Gap)
            THEN ~isFull(w) /\ model(w) = emptyModel(w.cls)
            ELSE /\ isFull(w)
                 /\ w.child = build(last.arg, t \o <<Step("child", 0)>>).w
                 /\ model(w) = model(w.child)
       ELSE LET list == node(root, parent)
                n == Len(list.elems)
            IN /\ n >= 1
               /\ list.elems[n]
                     = build(last.arg, parent \o <<Step("elems", n)>>).w
               /\ isRaised(model(list))
                     \/ /\ Len(modelled(list)) = n
                        /\ modelled(list)[n] = model(list.elems[n])

\* the receiver of the script change event of a mutation at path t: the
\* slot, or the list of a list gap
receiver(t) ==
    IF node(root, t).cls \in ListGapClasses THEN SubSeq(t, 1, Len(t) - 1) ELSE t

occupants(cls) ==
    CASE cls = "NumberGapWidget" -> {"NumberValueWidget", "NumberOperatorWidget"}
      [] cls = "TextGapWidget" -> {"TextValueWidget", "YoutubeVideoGetTitleWidget"}
      [] cls = "VideoGapWidget" ->
            {"VideoValueWidget", "YoutubeVideoCollectionRandomWidget"}
      [] cls = "VideoCollectionGapWidget" -> {"YoutubeVideoGetRelatedWidget"}

\* C20: the occupant of every full slot is a widget of a class built for
\* the category of the slot, and its model(), when it has one, satisfies
\* isAcceptable of the slot.
C20_SlotTypeInvariant ==
    \A p \in Paths :
        LET w == node(root, p)
        IN (w.cls \in GapClasses /\ isFull(w))
              => /\ w.child.cls \in occupants(w.cls)
                 /\ isRaised(model(w.child)) \/ isAcceptable(w, model(w.child))

\* an operator was dropped on a number slot, which holds it
C20_Witness ==
    /\ drag.st = "Dropped" /\ lastIsFill /\ last.op = "dropEvent"
    /\ lastGap.cls = "NumberGapWidget"
    /\ isFull(lastGap) /\ lastGap.child.cls = "NumberOperatorWidget"
    /\ drag.payload.cls \in {"Add", "Subtract"}

\* the category the gap of a list accepts
listCategory(cls) ==
    CASE cls = "CommandGapWidget" -> "Statement"
      [] cls = "SceneGapWidget" -> "Scene"

\* the widget classes built for the components a list holds
elementClasses(cls) ==
    CASE cls = "CommandSequenceWidget" -> {"GetWidget", "SetWidget"}
      [] cls = "ActWidget" -> {"VideoSceneWidget", "TextSceneWidget"}

\* the category of the elements of the component a list stands for
elementCategory(cls) ==
    CASE cls = "CommandSequenceWidget" -> "Statement"
      [] cls = "ActWidget" -> "Scene"

\* C21: the gap of a command sequence accepts a component exactly when it
\* is a Statement and the gap of an act exactly when it is a Scene; a drag
\* over a list gap that is not read-only is accepted exactly then; every
\* element of a command sequence is the widget of a Statement and every
\* element of an act the widget of a Scene, in the tree and in model().
C21_ListTypeInvariant ==
    /\ \A p \in Paths :
          LET w == node(root, p)
          IN /\ w.cls \in ListGapClasses =>
                   \A c \in Components :
                      isAcceptable(w, c) <=> (categoryOf(c.cls) = listCategory(w.cls))
             /\ w.cls \in ListClasses =>
                   \A k \in 1..Len(w.elems) :
                      /\ w.elems[k].cls \in elementClasses(w.cls)
                      /\ isRaised(model(w.elems[k]))
                            \/ categoryOf(model(w.elems[k]).cls)
                                   = elementCategory(w.cls)
    /\ (/\ drag.st = "Dragging" /\ drag.over # NoPath
        /\ node(root, drag.over).cls \in ListGapClasses
        /\ ~node(root, drag.over).readOnly)
          => (drag.accepted <=>
                categoryOf(drag.payload.cls)
                    = listCategory(node(root, drag.over).cls))

\* the set statement of the commands before a text scene was dropped on the
\* gap of the commands after it
C21_Witness ==
    /\ root # None /\ root.cls = "TextSceneWidget"
    /\ drag.st = "Dropped" /\ last.op = "dropEvent" /\ last.raised = ""
    /\ last.at = <<Step("postCommands", 0), Step("gap", 0)>>
    /\ drag.payload.cls = "SetVariableStatement"
    /\ Len(root.postCommands.elems) = 1
    /\ root.postCommands.elems[1].cls = "SetWidget"

\* the numbers of the element widgets of a list layout, in layout order
RECURSIVE widgetsOf(_, _)
widgetsOf(layout, i) ==
    IF i > Len(layout) THEN <<>>
    ELSE IF layout[i].item = "widget"
         THEN <<layout[i].n>> \o widgetsOf(layout, i + 1)
         ELSE widgetsOf(layout, i + 1)

\* C22: in every list the layout holds the gap once, every element widget
\* before the gap, and the element widgets in the order of the internal
\* sequence; the gap is not an element of the internal sequence; model()
\* has the model() of the elements in that order.
C22_GapLastInLayout ==
    \A p \in Paths :
        LET w == node(root, p)
        IN w.cls \in ListClasses =>
              /\ Cardinality({k \in 1..Len(w.layout) : w.layout[k].item = "gap"}) = 1
              /\ \A k \in 1..Len(w.layout) :
                    w.layout[k].item = "widget" => k < indexOfGap(w.layout)
              /\ widgetsOf(w.layout, 1) = [k \in 1..Len(w.elems) |-> k]
              /\ \A k \in 1..Len(w.elems) : w.elems[k].cls \notin ListGapClasses
              /\ w.gap.cls \in ListGapClasses
              /\ isRaised(model(w))
                    \/ modelled(w) = [k \in 1..Len(w.elems) |-> model(w.elems[k])]

\* a scene was dropped on the gap of an act built with one scene: the
\* layout has the spacing, the two scenes, the gap and the stretch
C22_Witness ==
    /\ root # None /\ root.cls = "ActWidget"
    /\ last.op = "dropEvent" /\ last.raised = ""
    /\ Len(root.elems) = 2
    /\ root.layout = <<[item |-> "spacing", n |-> 0], [item |-> "widget", n |-> 1],
                       [item |-> "widget", n |-> 2], [item |-> "gap", n |-> 0],
                       [item |-> "stretch", n |-> 0]>>

\* C23: model() of a scene whose slots have a model() takes each field from
\* the slot of that field: duration, offset and source of a video scene from
\* the duration, offset and source slots, text and duration of a text scene
\* from the text and duration slots.
C23_SceneFieldsFromOwnSlots ==
    \A p \in Paths :
        LET w == node(root, p)
        IN /\ (w.cls = "VideoSceneWidget" /\ ~isRaised(model(w)))
                 => /\ model(w).cls = "VideoScene"
                    /\ model(w).duration = model(w.duration)
                    /\ model(w).offset = model(w.offset)
                    /\ model(w).source = model(w.source)
           /\ (w.cls = "TextSceneWidget" /\ ~isRaised(model(w)))
                 => /\ model(w).cls = "TextScene"
                    /\ model(w).text = model(w.text)
                    /\ model(w).duration = model(w.duration)

\* the objects held in the root tree
held == {heap.obj[p] : p \in DOMAIN heap.obj}

\* the paths at which the root tree holds the object o
owners(o) == {p \in DOMAIN heap.obj : heap.obj[p] = o}

\* a step that empties the full gap at p or fills it again: a call of
\* emptyGap or fillGap, or a drop on the gap
displaces(p) ==
    /\ node(root, p).cls \in GapClasses /\ isFull(node(root, p))
    /\ last'.op \in {"fillGap", "emptyGap", "dropEvent"}
    /\ last'.at = p
    /\ \/ ops' = ops + 1 /\ drag.st = "Idle" /\ drag'.st = "Idle"
       \/ drag.st = "Dragging" /\ drag'.st = "Dropped"
    /\ last'.op = "emptyGap" => last'.raised = ""

RecognisedNames == {VARIABLE_NAMES[k] : k \in 1..Len(VARIABLE_NAMES)}

\* C25: the variable name of the model() of every get widget and of every
\* set widget that has a model() is one of the recognised variable names.
C25_VariableNameRecognised ==
    \A p \in Paths :
        LET w == node(root, p)
        IN (w.cls \in {"GetWidget", "SetWidget"} /\ ~isRaised(model(w)))
              => model(w).name \in RecognisedNames

\* a step in which model() or isAcceptable() is called: by the application,
\* by the start of a drag (model() of the source) or by a drag entering a
\* target (isAcceptable of the target)
pureCall ==
    \/ call'.n = call.n + 1
    \/ drag.st = "Idle" /\ drag'.st = "Dragging"
    \/ drag.st = "Dragging" /\ drag'.st = "Dragging" /\ drag'.over # drag.over

holds(a, b) == Len(a) <= Len(b) /\ SubSeq(b, 1, Len(a)) = a

\* a drag whose source is a widget of the tree ends
dragEnds ==
    /\ drag.st = "Dragging" /\ drag'.st \in {"Dropped", "Cancelled"}
    /\ orphan = None /\ drag.src \in Paths

\* the source of the drag is where it was, the same object, with the
\* model() it had when the drag started
sourceKept ==
    /\ drag.src \in Paths'
    /\ drag.src \in DOMAIN heap'.obj
    /\ heap'.obj[drag.src] = heap.obj[drag.src]
    /\ node(root', drag.src).cls = node(root, drag.src).cls

sourceModelKept ==
    /\ model(node(root, drag.src)) = drag.payload
    /\ drag.src \in Paths'
    /\ model(node(root', drag.src)) = drag.payload

\* the widget the drop put in the tree, when it returned: at path q, made
\* by this drop from the payload, of objects that did not exist before
droppedFresh ==
    LET t == drag.over
        w == node(root, t)
        parent == SubSeq(t, 1, Len(t) - 1)
        q == IF w.cls \in GapClasses THEN t \o <<Step("child", 0)>>
             ELSE parent \o <<Step("elems", Len(node(root, parent).elems) + 1)>>
    IN (last'.raised = "" /\ ~isinstance(drag.payload, Gap))
          => /\ q \in Paths'
             /\ node(root', q) = build(drag.payload, q).w
             /\ \A x \in below(heap', q) :
                   /\ heap'.obj[x] \notin held \cup heap.detached
                   /\ heap'.obj[x] # heap.obj[drag.src]

\* C27 as stated: a drag that ends, dropped or cancelled, leaves the source
\* where it was with the model() it had when the drag started, unless the
\* drop target is the slot that owns the source; the widget a drop puts in
\* the tree is new, built from the payload.
C27_SourceKeptUnlessOwnerTarget ==
    [][dragEnds =>
          /\ (drag'.st = "Cancelled"
               \/ drag.over \o <<Step("child", 0)>> # drag.src)
                => (sourceKept /\ sourceModelKept)
          /\ drag'.st = "Dropped" => droppedFresh]_vars

\* C27, amended: a drag that ends cancelled leaves the source where it was
\* with the model() it had; a drop leaves the source where it was unless the
\* target is a slot that holds the source at any depth, which displaces it
\* with the occupant, and leaves its model() as it was unless, besides, the
\* target lies inside the source, which then holds the copy; the widget a
\* drop puts in the tree is new, built from the payload.
C27_DragIsCopy ==
    [][dragEnds =>
          /\ drag'.st = "Cancelled" => (sourceKept /\ sourceModelKept)
          /\ drag'.st = "Dropped" =>
                /\ ~holds(drag.over \o <<Step("child", 0)>>, drag.src)
                      => sourceKept
                /\ (/\ ~holds(drag.over \o <<Step("child", 0)>>, drag.src)
                    /\ ~holds(drag.src, drag.over))
                      => sourceModelKept
                /\ holds(drag.over \o <<Step("child", 0)>>, drag.src)
                      => heap.obj[drag.src] \in heap'.detached
                /\ droppedFresh]_vars

\* the first operand of an operator was dropped on the second operand slot:
\* both slots hold the number, the first the widget built with the
\* operator, the second a widget built by the drop
C27_Witness ==
    /\ root # None /\ root.cls = "NumberOperatorWidget"
    /\ drag.st = "Dropped" /\ last.op = "dropEvent" /\ last.raised = ""
    /\ drag.src = <<Step("operand1", 0), Step("child", 0)>>
    /\ last.at = <<Step("operand2", 0)>>
    /\ model(root.operand1) = drag.payload
    /\ model(root.operand2) = drag.payload
    /\ heap.obj[drag.src].build = 0
    /\ heap.obj[<<Step("operand2", 0), Step("child", 0)>>].build = 1

\* C28: a drag starts only with a gesture of the user on the source, whose
\* model() is the payload: the mouse move event of a gesture that has
\* started the drag of a widget does not go on to start a drag of a widget
\* that encloses it.
C28_OneGestureOneDrag ==
    [][(drag.st = "Idle" /\ drag'.st = "Dragging")
          => /\ moving = NoPath
             /\ drag'.payload = model(sourceWidget(drag'.src))]_vars

=============================================================================
